---- MODULE Spec2Model ----
(***************************************************************************)
(* Model of the BetterBeam takeoff job orchestrator                        *)
(* (Clone/betterbeam/src-tauri/src/jobs.rs and the document loader pdf.rs).*)
(*                                                                         *)
(* The process-wide state is the atomic counter NEXT_ID and the job table  *)
(* JOBS behind one mutex.  Every lock acquisition of the code is one       *)
(* atomic action of the model; everything a task does between two lock     *)
(* acquisitions is local to the task.                                      *)
(***************************************************************************)
EXTENDS Integers, Sequences, FiniteSets, TLC

(***************************************************************************)
(* Bounds of the model.                                                    *)
(***************************************************************************)
\* number of start_auto_takeoff invocations that may run (concurrently); the
\* invocations are numbered in the order in which they reach NEXT_ID.fetch_add
MaxCalls == 2
\* retry budget the document loader is specified to have (max_retries)
MaxRetries == 2
\* number of leading open attempts that fail on the transiently failing path
FlakyFailures == 1
\* largest max_retries that retry_with_backoff is run with
MaxRetryArg == 3

Calls == 1..MaxCalls
\* ids that readers ask for: every id that can be handed out and one beyond,
\* which is never handed out
PollIds == 1..(MaxCalls + 1)

(***************************************************************************)
(* Documents (the environment of page_count_from_path).                    *)
(***************************************************************************)
Paths == {"ok.pdf", "flaky.pdf", "missing.pdf"}

Ok(n) == [tag |-> "Ok", n |-> n, e |-> ""]
Err(e) == [tag |-> "Err", n |-> 0, e |-> e]
NotCalled == [tag |-> "NotCalled", n |-> 0, e |-> ""]

\* pages of a document that opens
PageCount(path) == IF path = "ok.pdf" THEN 1 ELSE 3

\* Result of the attempt-th call of page_count_from_path(path): the file
\* "missing.pdf" never loads, "flaky.pdf" fails to load on its first
\* FlakyFailures attempts (a transient I/O failure) and loads afterwards.
page_count_from_path(path, attempt) ==
  CASE path = "missing.pdf" -> Err("FileNotFound")
    [] path = "flaky.pdf" /\ attempt <= FlakyFailures -> Err("IoError")
    [] OTHER -> Ok(PageCount(path))

(***************************************************************************)
(* JobState, Job.                                                          *)
(***************************************************************************)
Pending == [tag |-> "Pending", stage |-> "", pct |-> 0, reason |-> ""]
Running(stage, pct) == [tag |-> "Running", stage |-> stage, pct |-> pct, reason |-> ""]
Succeeded == [tag |-> "Succeeded", stage |-> "", pct |-> 0, reason |-> ""]
Failed(e) == [tag |-> "Failed", stage |-> "", pct |-> 0, reason |-> e]

\* Option<String> of the result payload
NoPayload == [pdf_path |-> "", pages |-> 0, units_per_pixel |-> <<0, 1>>,
              segments |-> 0, lineal_feet |-> 0, area_sqft |-> 0,
              symbols |-> 0, items |-> <<>>]
None == [some |-> FALSE, v |-> NoPayload]
Some(v) == [some |-> TRUE, v |-> v]

Job(id, state, result_json) == [id |-> id, state |-> state, result_json |-> result_json]

(***************************************************************************)
(* The pipeline of a spawned task: its stage updates in program order.     *)
(***************************************************************************)
Stages == <<"open", "tile-pyramid", "vectors", "ocr", "scale", "detect", "measure", "map">>

StageIndex(stage) == CHOOSE i \in 1..Len(Stages) : Stages[i] = stage

StagePctLate(stage) ==
  CASE stage = "open" -> 5
    [] stage = "tile-pyramid" -> 15
    [] stage = "vectors" -> 30
    [] stage = "ocr" -> 45
    [] stage = "scale" -> 55
    [] stage = "detect" -> 70
    [] stage = "measure" -> 28
    [] stage = "map" -> 92

\* the percent the code passes to update(stage, pct)
StagePct(stage) ==
  CASE stage = "open" -> 5
    [] stage = "tile-pyramid" -> 15
    [] stage = "vectors" -> 30
    [] stage = "ocr" -> 45
    [] stage = "scale" -> 55
    [] stage = "detect" -> 70
    [] stage = "measure" -> 82
    [] stage = "map" -> 92

\* Program counter of a task: "unspawned", "update:<stage>" is written as the
\* stage name, "load" is the await of page_count_from_path, "set_failed",
\* "set_result", "set_succeeded" are the remaining table updates.
AfterLoadNoCheck(r) == "tile-pyramid"

AfterLoadReturnOnly(r) == IF r.tag = "Ok" THEN "tile-pyramid" ELSE "done"

\* match page_count_from_path(..) { Ok(n) => n, Err(e) => { set_state(Failed); return } }
AfterLoad(r) == IF r.tag = "Ok" THEN "tile-pyramid" ELSE "set_failed"

AfterFailedNoReturn == "tile-pyramid"

\* the return that follows set_state(id, JobState::Failed(e))
AfterFailed == "done"

AfterUpdateSkipResult(stage) ==
  CASE stage = "open" -> "load"
    [] stage = "map" -> "set_succeeded"
    [] OTHER -> Stages[StageIndex(stage) + 1]

\* the statement that follows update(stage, pct)
AfterUpdate(stage) ==
  CASE stage = "open" -> "load"
    [] stage = "map" -> "set_result"
    [] OTHER -> Stages[StageIndex(stage) + 1]

\* set_result(id, result) is followed by set_state(id, Succeeded)
AfterResult == "set_succeeded"

\* set_state(id, Succeeded) is the last statement of the task
AfterSucceeded == "done"

(***************************************************************************)
(* State.                                                                  *)
(***************************************************************************)
VARIABLES
  NEXT_ID,   \* static NEXT_ID: AtomicU64
  JOBS,      \* static JOBS: Mutex<HashMap<u64, Job>>, a function on the inserted keys
  call,      \* the invocations of start_auto_takeoff: position, id taken, argument
  task,      \* the spawned pipeline tasks, by the id they captured
  writes,    \* history: how many times set_result ran for each id
  taken,     \* history: the ids in the order in which NEXT_ID.fetch_add handed them out
  last,      \* the last job_status / job_result call of a reader and what it returned
  tiler,     \* the thread spawned by prefetch_view: its arguments, locals and tiles
  scan,      \* an evaluation of infer_scale_from_text: its argument and result
  retry,     \* a run of retry_with_backoff: its arguments, locals and sleeps
  tune       \* an evaluation of auto_tune_params: its arguments and result

\* the state of the job orchestrator
jobvars == <<NEXT_ID, JOBS, call, task, writes, taken, last>>

\* the state of the other components, which the orchestrator never touches
aux == <<tiler, scan, retry, tune>>

vars == <<NEXT_ID, JOBS, call, task, writes, taken, last, tiler, scan, retry, tune>>

Ids == 1..MaxCalls

IdleCall == [pc |-> "idle", id |-> 0, pdf_path |-> ""]
NoTask == [pc |-> "unspawned", pdf_path |-> "", page_count |-> NotCalled, attempts |-> 0]
NoCall == [op |-> "none", id |-> 0, val |-> [kind |-> "none"], terminal |-> FALSE]

\* a component that is not running
Off == [pc |-> "off"]

JobsInit ==
  /\ NEXT_ID = 1
  /\ JOBS = <<>>
  /\ call = [c \in Calls |-> IdleCall]
  /\ task = [i \in Ids |-> NoTask]
  /\ writes = [i \in Ids |-> 0]
  /\ taken = <<>>
  /\ last = NoCall

Init ==
  /\ JobsInit
  /\ tiler = Off /\ scan = Off /\ retry = Off /\ tune = Off

(***************************************************************************)
(* The table operations.                                                   *)
(***************************************************************************)
FetchAddNoIncrement(n) == n

\* the value NEXT_ID holds after fetch_add(1, SeqCst) (which returns n)
FetchAdd(n) == n + 1

\* JOBS.lock().insert(id, job)
Insert(table, id, job) == [k \in (DOMAIN table) \cup {id} |-> IF k = id THEN job ELSE table[k]]

set_state_all(table, id, state) ==
  IF id \in DOMAIN table THEN [k \in DOMAIN table |-> [table[k] EXCEPT !.state = state]] ELSE table

\* if let Some(job) = JOBS.lock().get_mut(&id) { job.state = state; }
set_state(table, id, state) ==
  IF id \in DOMAIN table THEN [table EXCEPT ![id].state = state] ELSE table

\* if let Some(job) = JOBS.lock().get_mut(&id) { job.result_json = Some(result); }
set_result(table, id, result) ==
  IF id \in DOMAIN table THEN [table EXCEPT ![id].result_json = Some(result)] ELSE table

Terminal(job) == job.state.tag \in {"Succeeded", "Failed"}

(***************************************************************************)
(* start_auto_takeoff(pdf_path).                                           *)
(***************************************************************************)
\* let id = NEXT_ID.fetch_add(1, Ordering::SeqCst);
StartFetchAdd(c) ==
  /\ call[c].pc = "idle"
  /\ \A d \in Calls : d < c => call[d].pc # "idle"
  /\ \E path \in Paths :
       call' = [call EXCEPT ![c] = [pc |-> "fetched", id |-> NEXT_ID, pdf_path |-> path]]
  /\ taken' = Append(taken, NEXT_ID)
  /\ NEXT_ID' = FetchAdd(NEXT_ID)
  /\ UNCHANGED <<aux, writes, JOBS, task, last>>

StartInsertSkipped(c) ==
  /\ call[c].pc = "fetched"
  /\ call' = [call EXCEPT ![c].pc = "inserted"]
  /\ UNCHANGED <<aux, writes, NEXT_ID, JOBS, task, taken, last>>

\* let job = Job { id, state: Pending, result_json: None }; JOBS.lock().insert(id, job);
StartInsert(c) ==
  /\ call[c].pc = "fetched"
  /\ JOBS' = Insert(JOBS, call[c].id, Job(call[c].id, Pending, None))
  /\ call' = [call EXCEPT ![c].pc = "inserted"]
  /\ UNCHANGED <<aux, writes, NEXT_ID, task, taken, last>>

\* tauri::async_runtime::spawn(async move { ... }): the task captures id and
\* pdf_path; the call then returns id (nothing is shared between the two)
StartSpawn(c) ==
  /\ call[c].pc = "inserted"
  /\ call[c].id \in Ids
  /\ task' = [task EXCEPT ![call[c].id] =
                [pc |-> "open", pdf_path |-> call[c].pdf_path,
                 page_count |-> NotCalled, attempts |-> 0]]
  /\ call' = [call EXCEPT ![c].pc = "returned"]
  /\ UNCHANGED <<aux, writes, NEXT_ID, JOBS, taken, last>>

(***************************************************************************)
(* infer_scale_from_text (scale.rs).  A text is a sequence of characters;  *)
(* a number is held exactly, as a sign and a magnitude, and a scale as the *)
(* fraction num / den.                                                     *)
(***************************************************************************)
\* the longest text the model passes to the parser
MaxTextLen == 4

\* the characters of the texts of the model
Alphabet == {"0", "1", "2", "S", ":", "/", "=", "-", " ", "\""}

Texts == UNION {[1..n -> Alphabet] : n \in 0..MaxTextLen}

Digits == <<"0", "1", "2", "3", "4", "5", "6", "7", "8", "9">>

IsDigit(ch) == \E i \in 1..Len(Digits) : Digits[i] = ch

DigitVal(ch) == (CHOOSE i \in 1..Len(Digits) : Digits[i] = ch) - 1

\* char::to_lowercase on the characters of the model
ToLowerChar(ch) == IF ch = "S" THEN "s" ELSE ch

\* text.to_lowercase()
to_lowercase(text) == [i \in 1..Len(text) |-> ToLowerChar(text[i])]

\* str::find: the position of the first occurrence of pat in t, 0 for None
Find(t, pat) ==
  LET hits == {i \in 1..(Len(t) - Len(pat) + 1) : SubSeq(t, i, i + Len(pat) - 1) = pat}
  IN  IF hits = {} THEN 0 ELSE CHOOSE i \in hits : \A j \in hits : i <= j

\* for ch in rest.chars() { if ch.is_ascii_digit() { num.push(ch) } else { break } }
DigitRun(rest) ==
  LET k == CHOOSE k \in 0..Len(rest) :
             /\ \A i \in 1..k : IsDigit(rest[i])
             /\ k = Len(rest) \/ ~IsDigit(rest[k + 1])
  IN  SubSeq(rest, 1, k)

\* str::trim_matches(set), and str::trim() for the set of white space
TrimMatches(str, set) ==
  LET keep == {i \in 1..Len(str) : str[i] \notin set}
  IN  IF keep = {} THEN <<>>
      ELSE SubSeq(str, CHOOSE i \in keep : \A j \in keep : i <= j,
                       CHOOSE i \in keep : \A j \in keep : i >= j)

RECURSIVE DigitsValue(_)
DigitsValue(ds) ==
  IF ds = <<>> THEN 0
  ELSE 10 * DigitsValue(SubSeq(ds, 1, Len(ds) - 1)) + DigitVal(ds[Len(ds)])

ParseErr == [ok |-> FALSE, neg |-> FALSE, mag |-> 0]

\* str::parse::<f32>() on the texts of the model: an optional sign and digits
ParseF32(str) ==
  LET signed == Len(str) > 0 /\ str[1] \in {"-", "+"}
      ds == IF signed THEN SubSeq(str, 2, Len(str)) ELSE str
  IN  IF ds # <<>> /\ \A i \in 1..Len(ds) : IsDigit(ds[i])
        THEN [ok |-> TRUE, neg |-> signed /\ str[1] = "-", mag |-> DigitsValue(ds)]
        ELSE ParseErr

\* n > 0.0
Positive(n) == n.mag > 0 /\ ~n.neg

NoScale == [some |-> FALSE, unit |-> "", num |-> 0, den |-> 1]
SomeScale(unit, num, den) == [some |-> TRUE, unit |-> unit, num |-> num, den |-> den]

\* the block under `if let Some(pos) = t.find("1:")`
RatioForm(t) ==
  LET pos == Find(t, <<"1", ":">>)
      n == ParseF32(DigitRun(SubSeq(t, pos + 2, Len(t))))
  IN  IF pos # 0 /\ n.ok /\ Positive(n) THEN SomeScale("m", 1, n.mag) ELSE NoScale

\* the block under `if let Some(eq) = t.find('=')`
ArchForm(t) ==
  LET eq == Find(t, <<"=">>)
      left == TrimMatches(SubSeq(t, 1, eq - 1), {" "})
      slash == Find(left, <<"/">>)
      na == ParseF32(TrimMatches(SubSeq(left, 1, slash - 1), {" "}))
      nb == ParseF32(TrimMatches(SubSeq(left, slash + 1, Len(left)), {"\"", " "}))
  IN  IF eq # 0 /\ slash # 0 /\ na.ok /\ nb.ok /\ Positive(nb)
        THEN SomeScale("ft", IF na.neg THEN 0 - na.mag ELSE na.mag, nb.mag * 12)
        ELSE NoScale

infer_scale_from_text(text) ==
  LET t == to_lowercase(text)
  IN  IF RatioForm(t).some THEN RatioForm(t) ELSE ArchForm(t)

ScanInit ==
  /\ JobsInit
  /\ scan \in {[pc |-> "call", text |-> text, result |-> NoScale] : text \in Texts}
  /\ tiler = Off /\ retry = Off /\ tune = Off

\* one call of infer_scale_from_text(text)
ScanInfer ==
  /\ scan.pc = "call"
  /\ scan' = [scan EXCEPT !.pc = "done", !.result = infer_scale_from_text(scan.text)]
  /\ UNCHANGED <<jobvars, tiler, retry, tune>>

ScanSpec == ScanInit /\ [][ScanInfer]_vars

(***************************************************************************)
(* The spawned pipeline of job id.                                         *)
(***************************************************************************)
\* update(stage, pct) = set_state(id, Running(JobProgress { stage, pct }))
Update(id) ==
  /\ \E i \in 1..Len(Stages) : task[id].pc = Stages[i]
  /\ JOBS' = set_state(JOBS, id, Running(task[id].pc, StagePct(task[id].pc)))
  /\ task' = [task EXCEPT ![id].pc = AfterUpdate(task[id].pc)]
  /\ UNCHANGED <<aux, writes, NEXT_ID, call, taken, last>>

\* crate::pdf::page_count_from_path(&pdf_path).await, called once
Load(id) ==
  /\ task[id].pc = "load"
  /\ LET r == page_count_from_path(task[id].pdf_path, task[id].attempts + 1)
     IN task' = [task EXCEPT ![id].page_count = r,
                              ![id].attempts = task[id].attempts + 1,
                              ![id].pc = AfterLoad(r)]
  /\ UNCHANGED <<aux, writes, NEXT_ID, JOBS, call, taken, last>>

\* Err(e) => { set_state(id, JobState::Failed(e)); return; }
SetFailed(id) ==
  /\ task[id].pc = "set_failed"
  /\ JOBS' = set_state(JOBS, id, Failed(task[id].page_count.e))
  /\ task' = [task EXCEPT ![id].pc = AfterFailed]
  /\ UNCHANGED <<aux, writes, NEXT_ID, call, taken, last>>

UnitsPerPixelZero == <<0, 1>>

\* the 1.0 of inferred.map(|(_, v)| v).unwrap_or(1.0)
UnitsPerPixelDefault == <<1, 1>>

\* map_to_line_items(_dets, lineal, area) (map.rs)
map_to_line_items(dets, lineal, area) ==
  [summary |-> [symbols |-> 0, lineal_feet |-> lineal, area_sqft |-> area],
   items |-> <<>>]

\* The locals of the task and
\* json!({ "pdf_path", "pages", "units_per_pixel", "vectors", "summary", "items" }).to_string()
ResultJson(pdf_path, page_count) ==
  LET total_line_segments == 0
      ocr_text == <<>>
      inferred == infer_scale_from_text(ocr_text)
      units_per_pixel == IF inferred.some THEN <<inferred.num, inferred.den>>
                         ELSE UnitsPerPixelDefault
      detected == <<>>
      total_lineal == 0
      total_area == 0
      mapping == map_to_line_items(detected, total_lineal, total_area)
  IN  [pdf_path |-> pdf_path, pages |-> page_count,
       units_per_pixel |-> units_per_pixel,
       segments |-> total_line_segments,
       lineal_feet |-> mapping.summary.lineal_feet,
       area_sqft |-> mapping.summary.area_sqft,
       symbols |-> mapping.summary.symbols, items |-> mapping.items]

\* set_result(id, result);
SetResult(id) ==
  /\ task[id].pc = "set_result"
  /\ JOBS' = set_result(JOBS, id, ResultJson(task[id].pdf_path, task[id].page_count.n))
  /\ task' = [task EXCEPT ![id].pc = AfterResult]
  /\ writes' = [writes EXCEPT ![id] = writes[id] + 1]
  /\ UNCHANGED <<aux, NEXT_ID, call, taken, last>>

\* set_state(id, JobState::Succeeded);
SetSucceeded(id) ==
  /\ task[id].pc = "set_succeeded"
  /\ JOBS' = set_state(JOBS, id, Succeeded)
  /\ task' = [task EXCEPT ![id].pc = AfterSucceeded]
  /\ UNCHANGED <<aux, writes, NEXT_ID, call, taken, last>>

(***************************************************************************)
(* job_status(id), job_result(id).                                         *)
(***************************************************************************)
\* serde_json::to_value(job)
ToValue(job) == [kind |-> "job", id |-> job.id, state |-> job.state, result_json |-> job.result_json]

\* json!({"error":"not_found"})
NotFound == [kind |-> "error", error |-> "not_found"]

\* the String job_result returns
Text(payload) == [kind |-> "string", empty |-> FALSE, v |-> payload]
EmptyObject == [kind |-> "string", empty |-> TRUE, v |-> NoPayload]

job_status_value(table, id) ==
  IF id \in DOMAIN table THEN ToValue(table[id]) ELSE NotFound

job_result_value(table, id) ==
  IF id \in DOMAIN table /\ table[id].result_json.some
    THEN Text(table[id].result_json.v) ELSE EmptyObject

\* if let Some(job) = JOBS.lock().get(&id) { to_value(job) } else { not_found }
job_status(id) ==
  /\ last' = [op |-> "job_status", id |-> id, val |-> job_status_value(JOBS, id),
              terminal |-> id \in DOMAIN JOBS /\ Terminal(JOBS[id])]
  /\ UNCHANGED <<aux, writes, NEXT_ID, JOBS, call, task, taken>>

job_result_take(id) ==
  /\ last' = [op |-> "job_result", id |-> id, val |-> job_result_value(JOBS, id),
              terminal |-> id \in DOMAIN JOBS /\ Terminal(JOBS[id])]
  /\ JOBS' = IF id \in DOMAIN JOBS THEN [JOBS EXCEPT ![id].result_json = None] ELSE JOBS
  /\ UNCHANGED <<aux, writes, NEXT_ID, call, task, taken>>

\* JOBS.lock().get(&id).and_then(|j| j.result_json.clone()).unwrap_or_else(|| "{}".into())
job_result(id) ==
  /\ last' = [op |-> "job_result", id |-> id, val |-> job_result_value(JOBS, id),
              terminal |-> id \in DOMAIN JOBS /\ Terminal(JOBS[id])]
  /\ UNCHANGED <<aux, writes, NEXT_ID, JOBS, call, task, taken>>

(***************************************************************************)
(* Specification.                                                          *)
(***************************************************************************)
Next ==
  \/ \E c \in Calls : StartFetchAdd(c)
  \/ \E c \in Calls : StartInsert(c)
  \/ \E c \in Calls : StartSpawn(c)
  \/ \E id \in Ids : Update(id)
  \/ \E id \in Ids : Load(id)
  \/ \E id \in Ids : SetFailed(id)
  \/ \E id \in Ids : SetResult(id)
  \/ \E id \in Ids : SetSucceeded(id)
  \/ \E id \in PollIds : job_status(id)
  \/ \E id \in PollIds : job_result(id)

Spec == Init /\ [][Next]_vars

\* the steps of the task spawned for job id
Pipeline(id) == Update(id) \/ Load(id) \/ SetFailed(id) \/ SetResult(id) \/ SetSucceeded(id)

\* The steps of the invocations and of the tasks.  The readers' calls are
\* left out of the liveness specification: they change only `last`, which no
\* invocation and no task reads.
JobsNext ==
  \/ \E c \in Calls : StartFetchAdd(c)
  \/ \E c \in Calls : StartInsert(c)
  \/ \E c \in Calls : StartSpawn(c)
  \/ \E id \in Ids : Pipeline(id)

\* The runtime runs every spawned task and every started invocation to its
\* end: a task that can take a step eventually takes one, and an invocation
\* that has inserted its record spawns the task.
FairSpec ==
  /\ Init
  /\ [][JobsNext]_vars
  /\ \A c \in Calls : WF_vars(StartSpawn(c))
  /\ \A id \in Ids : WF_vars(Pipeline(id))

(***************************************************************************)
(* prefetch_view (main.rs): the tiling loop of the raster tiler.           *)
(*                                                                         *)
(* Lengths are f32 values of the code.  The model holds them as integers   *)
(* in units of 8 px, which every length used below is a multiple of, and   *)
(* rounds every sum and difference to the 24-bit significand of an f32.    *)
(***************************************************************************)
\* the most tiles the model lets one thread produce
MaxTiles == 24

\* n px in the model's unit
Px(n) == n \div 8

RECURSIVE Ulp(_)
\* the spacing of the f32 values around the magnitude a
Ulp(a) == IF a < 2^24 THEN 1 ELSE 2 * Ulp(a \div 2)

\* round-to-nearest, ties-to-even, of a magnitude a
F32Mag(a) ==
  LET s == Ulp(a)
      q == a \div s
      r == a % s
  IN  IF 2 * r < s THEN q * s
      ELSE IF 2 * r > s THEN (q + 1) * s
      ELSE IF q % 2 = 0 THEN q * s ELSE (q + 1) * s

\* the f32 nearest to the exact result v of an f32 operation
F32(v) == IF v < 0 THEN 0 - F32Mag(0 - v) ELSE F32Mag(v)

Min(a, b) == IF a <= b THEN a ELSE b
Max(a, b) == IF a >= b THEN a ELSE b

\* let overlap = 64.0;
Overlap == Px(64)

\* let tile = tile.max(256.0).min(1024.0);
ClampTile(tile) == Min(Max(tile, Px(256)), Px(1024))

\* let step = (tile - overlap).max(256.0);
Step(t) == Max(F32(t - Overlap), Px(256))

\* let tw = tile.min(x1 - tx).max(0.0);  (th likewise)
TileExtent(t, hi, at) == Max(Min(t, F32(hi - at)), 0)

\* 2^32 px, where the f32 values are 512 px apart
Far == 2^29

\* the arguments prefetch_view is called with
TileArgs ==
  {a \in [pdf_path : {"ok.pdf", "missing.pdf"},
          x0 : {0, Px(128), Far},
          w : {0, Px(200), Px(1000), Px(2048)},
          y0 : {0},
          h : {Px(200), Px(600)},
          tile : {Px(64), Px(256), Px(288), Px(320), Px(512), Px(832), Px(2048)}] :
     F32(a.x0 + a.w) = a.x0 + a.w}

TilerStart(a) ==
  [pc |-> "spawned", pdf_path |-> a.pdf_path,
   x0 |-> a.x0, y0 |-> a.y0, x1 |-> a.x0 + a.w, y1 |-> a.y0 + a.h,
   tile |-> a.tile, step |-> 0, tx |-> 0, ty |-> 0, tiles |-> <<>>]

\* the state after prefetch_view(..) has spawned its thread
TileInit ==
  /\ JobsInit
  /\ tiler \in {TilerStart(a) : a \in TileArgs}
  /\ scan = Off /\ retry = Off /\ tune = Off

\* Pdfium::new(..), load_pdf_from_file: Err(_) => return; then lines 138-141
TileOpen ==
  /\ tiler.pc = "spawned"
  /\ IF page_count_from_path(tiler.pdf_path, 1).tag = "Ok"
       THEN tiler' = [tiler EXCEPT !.pc = "row",
                                   !.tile = ClampTile(tiler.tile),
                                   !.step = Step(ClampTile(tiler.tile)),
                                   !.ty = tiler.y0]
       ELSE tiler' = [tiler EXCEPT !.pc = "returned"]
  /\ UNCHANGED <<jobvars, scan, retry, tune>>

\* while ty < y1 { let mut tx = x0; ..
TileRow ==
  /\ tiler.pc = "row"
  /\ IF tiler.ty < tiler.y1
       THEN tiler' = [tiler EXCEPT !.pc = "col", !.tx = tiler.x0]
       ELSE tiler' = [tiler EXCEPT !.pc = "done"]
  /\ UNCHANGED <<jobvars, scan, retry, tune>>

\* while tx < x1 { tw, th, the tile (tx, ty, tw, th), tx += step }
TileCol ==
  /\ tiler.pc = "col"
  /\ tiler.tx < tiler.x1
  /\ Len(tiler.tiles) < MaxTiles
  /\ tiler' = [tiler EXCEPT
       !.tiles = Append(tiler.tiles,
                   [x |-> tiler.tx, y |-> tiler.ty,
                    w |-> TileExtent(tiler.tile, tiler.x1, tiler.tx),
                    h |-> TileExtent(tiler.tile, tiler.y1, tiler.ty)]),
       !.tx = F32(tiler.tx + tiler.step)]
  /\ UNCHANGED <<jobvars, scan, retry, tune>>

\* the inner loop ends: ty += step
TileRowEnd ==
  /\ tiler.pc = "col"
  /\ ~(tiler.tx < tiler.x1)
  /\ tiler' = [tiler EXCEPT !.pc = "row", !.ty = F32(tiler.ty + tiler.step)]
  /\ UNCHANGED <<jobvars, scan, retry, tune>>

TileNext == TileOpen \/ TileRow \/ TileCol \/ TileRowEnd

TileSpec == TileInit /\ [][TileNext]_vars

(***************************************************************************)
(* retry_with_backoff (raster.rs).                                         *)
(***************************************************************************)
\* what a call of the closure f may return: a value or one of three errors
FOutcomes == {Ok(1), Err("IoError"), Err("ParseError"), Err("FileNotFound")}

RetryAlways(attempts, max_retries) == attempts <= max_retries

\* the guard of the arm Err(e) if attempts < max_retries
RetryAllowed(attempts, max_retries) == attempts < max_retries

\* Duration::from_millis(50 * (1u64 << attempts)), in ms; no u64 overflow
\* for the attempts of the model
BackoffMs(attempts) == 50 * (2 ^ attempts)

\* retry_with_backoff(f, max_retries) has been entered: let mut attempts = 0.
\* outcomes are the results of the calls of f so far, sleeps the durations
\* slept so far.
RetryInit ==
  /\ JobsInit
  /\ retry \in {[pc |-> "call", max_retries |-> m, attempts |-> 0,
                 outcomes |-> <<>>, sleeps |-> <<>>, result |-> NotCalled] :
                m \in 0..MaxRetryArg}
  /\ tiler = Off /\ scan = Off /\ tune = Off

\* match f() { Ok(v) => return Ok(v), ..
RetryOk ==
  /\ retry.pc = "call"
  /\ \E r \in FOutcomes :
       /\ r.tag = "Ok"
       /\ retry' = [retry EXCEPT !.pc = "done",
                                 !.outcomes = Append(retry.outcomes, r),
                                 !.result = r]
  /\ UNCHANGED <<jobvars, tiler, scan, tune>>

\* Err(e) if attempts < max_retries => { attempts += 1; ..
RetryErr ==
  /\ retry.pc = "call"
  /\ RetryAllowed(retry.attempts, retry.max_retries)
  /\ \E r \in FOutcomes :
       /\ r.tag = "Err"
       /\ retry' = [retry EXCEPT !.pc = "sleep",
                                 !.outcomes = Append(retry.outcomes, r),
                                 !.attempts = retry.attempts + 1]
  /\ UNCHANGED <<jobvars, tiler, scan, tune>>

\* thread::sleep(Duration::from_millis(50 * (1u64 << attempts))); then loop
RetrySleep ==
  /\ retry.pc = "sleep"
  /\ retry' = [retry EXCEPT !.pc = "call",
                            !.sleeps = Append(retry.sleeps, BackoffMs(retry.attempts))]
  /\ UNCHANGED <<jobvars, tiler, scan, tune>>

\* Err(e) => return Err(e)
RetryGiveUp ==
  /\ retry.pc = "call"
  /\ ~RetryAllowed(retry.attempts, retry.max_retries)
  /\ \E r \in FOutcomes :
       /\ r.tag = "Err"
       /\ retry' = [retry EXCEPT !.pc = "done",
                                 !.outcomes = Append(retry.outcomes, r),
                                 !.result = r]
  /\ UNCHANGED <<jobvars, tiler, scan, tune>>

RetryNext == RetryOk \/ RetryErr \/ RetrySleep \/ RetryGiveUp

RetrySpec == RetryInit /\ [][RetryNext]_vars

\* every call of f returns and every sleep ends
RetryFairSpec == RetrySpec /\ WF_vars(RetryNext)

(***************************************************************************)
(* auto_tune_params (raster.rs).  The f32 values are fixed-point numbers   *)
(* in thousandths; every product below is a whole number of thousandths,   *)
(* so the arithmetic is exact up to the rounding of f32 (relative error    *)
(* below 2^-22), which decides none of the comparisons made here.          *)
(***************************************************************************)
\* otsu_level(..) is a u8: the largest Otsu level
MaxOtsu == 255

\* The standard deviations of the tiles that are tried.  The pixels of a
\* tile are the environment: GrayImage is the image library's type, stubbed
\* in raster.rs by a placeholder whose pixels() yields one black pixel.
Stds == {0, 50, 51, 127}

Milli(n) == n * 1000

\* the f32 product a * b
MulMilli(a, b) == (a * b) \div 1000

\* x as u32, for x >= 0: the fractional part is dropped
AsU32(x) == x \div 1000

\* let factor = if std > 50.0 { 0.85 } else { 1.0 };
ContrastFactor(std) == IF std > 50 THEN 850 ELSE 1000

\* auto_tune_params(gray, otsu), std being the second component of
\* grayscale_stats(gray)
auto_tune_params(std, otsu) ==
  LET factor == ContrastFactor(std)
      low == MulMilli(MulMilli(Milli(otsu), 500), factor)
      high == MulMilli(MulMilli(Milli(otsu), 1200), factor)
      vote == AsU32(MulMilli(Milli(30), factor))
  IN  [low |-> Max(low, Milli(1)),
       high |-> Max(high, low + Milli(1)),
       vote |-> Max(vote, 15)]

TuneInit ==
  /\ JobsInit
  /\ tune \in {[pc |-> "called", std |-> sd, otsu |-> o,
                low |-> 0, high |-> 0, vote |-> 0] :
               sd \in Stds, o \in 0..MaxOtsu}
  /\ tiler = Off /\ scan = Off /\ retry = Off

TuneReturn ==
  /\ tune.pc = "called"
  /\ LET r == auto_tune_params(tune.std, tune.otsu)
     IN  tune' = [tune EXCEPT !.pc = "done", !.low = r.low,
                              !.high = r.high, !.vote = r.vote]
  /\ UNCHANGED <<jobvars, tiler, scan, retry>>

TuneNext == TuneReturn

TuneSpec == TuneInit /\ [][TuneNext]_vars

(***************************************************************************)
(* Properties of the job state machine.                                    *)
(***************************************************************************)
Known(id) == id \in DOMAIN JOBS

AllowedTransitions ==
  {<<"Pending", "Running">>, <<"Running", "Running">>,
   <<"Running", "Succeeded">>, <<"Running", "Failed">>}

\* C1: a record is Pending when it is created, every later change of its
\* state is one of Pending -> Running, Running -> Running, Running ->
\* Succeeded, Running -> Failed, and a Succeeded or Failed state is never
\* changed again by any step.
C1_StateTransitions ==
  [][\A id \in DOMAIN JOBS' :
       IF ~Known(id)
         THEN JOBS'[id].state = Pending
         ELSE \/ JOBS'[id].state = JOBS[id].state
              \/ <<JOBS[id].state.tag, JOBS'[id].state.tag>> \in AllowedTransitions]_vars

\* a job has succeeded, another has failed, and a third step (a reader's
\* call) has happened since
C1_Witness ==
  /\ \E i \in DOMAIN JOBS : JOBS[i].state.tag = "Succeeded"
  /\ \E j \in DOMAIN JOBS : JOBS[j].state.tag = "Failed"
  /\ last.op # "none"

IsRunningStatus(obs) ==
  /\ obs.op = "job_status"
  /\ obs.val.kind = "job"
  /\ obs.val.state.tag = "Running"

\* C2: whenever job_status returns a Running state of a job after an earlier
\* job_status returned a Running state of the same job, the later percent is
\* not smaller and the later stage is not an earlier stage of the fixed
\* sequence; every observed stage is one of the sequence.
C2_MonotoneProgress ==
  [][/\ IsRunningStatus(last') =>
          \E i \in 1..Len(Stages) : Stages[i] = last'.val.state.stage
     /\ (IsRunningStatus(last) /\ IsRunningStatus(last') /\ last.id = last'.id) =>
          /\ last'.val.state.pct >= last.val.state.pct
          /\ StageIndex(last'.val.state.stage) >= StageIndex(last.val.state.stage)]_vars

\* job_status has returned the last stage of one job while another job is
\* still at an earlier stage
C2_Witness ==
  /\ IsRunningStatus(last)
  /\ last.val.state = Running("map", 92)
  /\ \E j \in DOMAIN JOBS : j # last.id /\ JOBS[j].state = Running("ocr", 45)

\* C3: a job whose document open returned an error is either still at the
\* open stage or Failed with exactly that error's (non-empty) reason; it has
\* no result payload, no result was ever written for it, and once its task
\* has ended it is Failed.
C3_OpenFailureFails ==
  \A id \in Ids :
    task[id].page_count.tag = "Err" =>
      /\ Known(id)
      /\ JOBS[id].state \in {Running("open", 5), Failed(task[id].page_count.e)}
      /\ task[id].page_count.e # ""
      /\ ~JOBS[id].result_json.some
      /\ writes[id] = 0
      /\ task[id].pc \in {"set_failed", "done"}
      /\ (task[id].pc = "done" => JOBS[id].state = Failed(task[id].page_count.e))

C3_Witness ==
  \E id \in Ids :
    /\ task[id].page_count = Err("FileNotFound")
    /\ task[id].pc = "done"
    /\ JOBS[id].state = Failed("FileNotFound")

\* C4: a job is Failed only if the open of its document fails on every
\* attempt of the retry budget (the first attempt and MaxRetries retries).
C4_FailedOnlyAfterRetries ==
  \A id \in DOMAIN JOBS :
    JOBS[id].state.tag = "Failed" =>
      \A a \in 1..(MaxRetries + 1) :
        page_count_from_path(task[id].pdf_path, a).tag = "Err"

\* C5: in every state of the job table a record with a result payload is
\* Succeeded, so job_result returns "{}" for every job that is not Succeeded.
C5_ResultOnlyWhenSucceeded ==
  \A id \in DOMAIN JOBS :
    JOBS[id].result_json.some => JOBS[id].state.tag = "Succeeded"

\* C6: set_result runs at most once per job and exactly once for a Succeeded
\* job; it runs at the last stage and leaves the state alone; once a payload
\* is present it never changes, and the only later change of the record is
\* the transition to Succeeded; a Succeeded job has a payload.
C6_ResultOnceBeforeSucceeded ==
  [][\A id \in DOMAIN JOBS :
       /\ writes'[id] <= 1
       /\ JOBS[id].result_json.some => JOBS'[id].result_json = JOBS[id].result_json
       /\ (~JOBS[id].result_json.some /\ JOBS'[id].result_json.some) =>
            /\ JOBS[id].state = Running("map", 92)
            /\ JOBS'[id].state = JOBS[id].state
       /\ (JOBS[id].result_json.some /\ JOBS'[id] # JOBS[id]) =>
            /\ JOBS[id].state = Running("map", 92)
            /\ JOBS'[id].state = Succeeded
       /\ JOBS'[id].state.tag = "Succeeded" =>
            /\ JOBS'[id].result_json.some
            /\ writes'[id] = 1]_vars

C6_Witness ==
  \E id \in DOMAIN JOBS :
    /\ JOBS[id].state = Succeeded
    /\ JOBS[id].result_json = Some(ResultJson("ok.pdf", 1))
    /\ last.op = "job_result" /\ last.id = id /\ ~last.val.empty

\* C7: the ids handed out by fetch_add start at 1 and are strictly increasing
\* in the order they were taken, no two invocations hold the same id, and
\* every record is stored under its own id.
C7_UniqueIncreasingIds ==
  /\ Len(taken) > 0 => taken[1] = 1
  /\ \A i, j \in 1..Len(taken) : i < j => taken[i] < taken[j]
  /\ \A c, d \in Calls :
       (c # d /\ call[c].pc # "idle" /\ call[d].pc # "idle") => call[c].id # call[d].id
  /\ \A k \in DOMAIN JOBS : JOBS[k].id = k

\* all invocations have taken their ids and none has inserted its record yet
C7_Witness ==
  /\ Len(taken) = MaxCalls
  /\ \A c \in Calls : call[c].pc = "fetched"

ReaderStep == last' # last

\* C8: a reader's call never changes the table or the counter; job_status
\* returns not_found exactly when the id is not a key of the table, job_result
\* then returns "{}"; and job_status of an id that an invocation has returned
\* is not not_found.
C8_NotFoundIffUnknown ==
  [][ReaderStep =>
       /\ JOBS' = JOBS /\ NEXT_ID' = NEXT_ID
       /\ last'.op = "job_status" => (last'.val = NotFound <=> ~Known(last'.id))
       /\ (last'.op = "job_result" /\ ~Known(last'.id)) => last'.val = EmptyObject
       /\ \A c \in Calls :
            (call[c].pc = "returned" /\ call[c].id = last'.id /\ last'.op = "job_status")
              => last'.val # NotFound]_vars

\* an id has been returned and job_status of an id never handed out returned
\* not_found
C8_Witness ==
  /\ \E c \in Calls : call[c].pc = "returned"
  /\ last.op = "job_status" /\ last.val = NotFound /\ ~Known(last.id)

\* C9: when a call on a terminal job is followed by the same call on that
\* job, both return the same value, whatever happened in between; and the
\* calls change neither the table nor any task.
C9_TerminalReadsIdempotent ==
  [][/\ ReaderStep => (JOBS' = JOBS /\ NEXT_ID' = NEXT_ID /\ task' = task)
     /\ (last.terminal /\ last'.op = last.op /\ last'.id = last.id) => last'.val = last.val]_vars

\* the payload of a terminal job has been read while another job is running
C9_Witness ==
  /\ last.terminal /\ last.op = "job_result" /\ ~last.val.empty
  /\ \E j \in DOMAIN JOBS : j # last.id /\ JOBS[j].state.tag = "Running"

\* C10: every record in the table eventually is Succeeded or Failed, and a
\* task never ends with its job in a state that is not terminal.
C10_EveryJobTerminates ==
  /\ \A id \in Ids : Known(id) ~> (Known(id) /\ Terminal(JOBS[id]))
  /\ [](\A id \in Ids : task[id].pc = "done" => (Known(id) /\ Terminal(JOBS[id])))

C10_Witness ==
  \A id \in Ids : Known(id) /\ Terminal(JOBS[id]) /\ task[id].pc = "done"

\* C11: every step changes at most one record of the table, a step of the
\* task of job A changes no record but A's, and no step removes a record.
C11_OnlyOwnRecord ==
  [][/\ DOMAIN JOBS \subseteq DOMAIN JOBS'
     /\ Cardinality({b \in DOMAIN JOBS : JOBS'[b] # JOBS[b]}) <= 1
     /\ \A a \in Ids :
          task'[a] # task[a] =>
            \A b \in DOMAIN JOBS : b # a => JOBS'[b] = JOBS[b]]_vars

\* two jobs are running at the same time, at different stages
C11_Witness ==
  \E a, b \in DOMAIN JOBS :
    /\ JOBS[a].state = Running("map", 92)
    /\ JOBS[b].state = Running("vectors", 30)

(***************************************************************************)
(* Properties of the tiling loop.                                          *)
(***************************************************************************)
InRow(a, b) == a.y = b.y

Covers(t, px, py) ==
  /\ t.x <= px /\ px < t.x + t.w
  /\ t.y <= py /\ py < t.y + t.h

\* C12: the tiles are produced in raster-scan order, every tile lies inside
\* the region with a positive width and height of at most the clamped tile
\* size, and when the loop has ended every point of the region lies in a tile.
C12_TilesCoverRegion ==
  LET T == tiler.tiles IN
  /\ \A i \in 1..(Len(T) - 1) :
       \/ T[i + 1].y > T[i].y
       \/ InRow(T[i], T[i + 1]) /\ T[i + 1].x > T[i].x
  /\ \A i \in 1..Len(T) :
       /\ tiler.x0 <= T[i].x /\ T[i].x + T[i].w <= tiler.x1
       /\ tiler.y0 <= T[i].y /\ T[i].y + T[i].h <= tiler.y1
       /\ 0 < T[i].w /\ T[i].w <= tiler.tile
       /\ 0 < T[i].h /\ T[i].h <= tiler.tile
  /\ tiler.pc = "done" =>
       \A px \in tiler.x0..(tiler.x1 - 1) : \A py \in tiler.y0..(tiler.y1 - 1) :
         \E i \in 1..Len(T) : Covers(T[i], px, py)

\* the row that follows the row of tile a
NextRow(a, b) ==
  /\ b.y > a.y
  /\ \A i \in 1..Len(tiler.tiles) : ~(a.y < tiler.tiles[i].y /\ tiler.tiles[i].y < b.y)

\* C13: a tile that is not clipped to the region overlaps the tile before it
\* in its row, and the tile above it in the row before, by exactly 64 px.
C13_OverlapExactly64 ==
  LET T == tiler.tiles IN
  /\ \A i \in 1..(Len(T) - 1) :
       (InRow(T[i], T[i + 1]) /\ T[i + 1].w = tiler.tile) =>
         T[i].x + T[i].w - T[i + 1].x = Overlap
  /\ \A i, j \in 1..Len(T) :
       (T[i].x = T[j].x /\ NextRow(T[i], T[j]) /\ T[j].h = tiler.tile) =>
         T[i].y + T[i].h - T[j].y = Overlap

CeilDiv(a, b) == (a + b - 1) \div b

\* C16: the step is at least 256 px and at most the tile size, every tile of
\* a row starts to the right of the tile before it and every row below the
\* row before it, and the loop produces no more tiles than a step of 256 px
\* allows, so it ends.
C16_LoopTerminates ==
  LET T == tiler.tiles IN
  /\ tiler.pc \in {"row", "col", "done"} =>
       /\ tiler.step >= Px(256)
       /\ tiler.step <= tiler.tile
       /\ tiler.pc = "col" /\ Len(T) > 0 /\ InRow(T[Len(T)], [y |-> tiler.ty]) =>
            tiler.tx > T[Len(T)].x
  /\ \A i \in 1..(Len(T) - 1) :
       /\ InRow(T[i], T[i + 1]) => T[i + 1].x > T[i].x
       /\ ~InRow(T[i], T[i + 1]) => T[i + 1].y > T[i].y
  /\ Len(T) <= CeilDiv(tiler.x1 - tiler.x0, Px(256)) * CeilDiv(tiler.y1 - tiler.y0, Px(256))

(***************************************************************************)
(* Properties of the scale parser.                                         *)
(***************************************************************************)
\* C14: every scale infer_scale_from_text returns has units_per_pixel > 0.
C14_ScalePositive ==
  (scan.pc = "done" /\ scan.result.some) =>
    (scan.result.num > 0 /\ scan.result.den > 0)

(***************************************************************************)
(* The result of a job whose document opens.                               *)
(***************************************************************************)
\* C15: a job whose document opened is never Failed and is Succeeded once
\* its task has ended; the payload of a Succeeded job has the page count of
\* its document, units_per_pixel 1.0, no items, 0 segments and 0 totals.
C15_DefaultResult ==
  \A id \in DOMAIN JOBS :
    /\ task[id].page_count.tag = "Ok" =>
         /\ JOBS[id].state.tag # "Failed"
         /\ task[id].pc = "done" => JOBS[id].state = Succeeded
    /\ JOBS[id].state = Succeeded =>
         /\ JOBS[id].result_json.some
         /\ JOBS[id].result_json.v.pdf_path = task[id].pdf_path
         /\ JOBS[id].result_json.v.pages = PageCount(task[id].pdf_path)
         /\ JOBS[id].result_json.v.units_per_pixel = <<1, 1>>
         /\ JOBS[id].result_json.v.items = <<>>
         /\ JOBS[id].result_json.v.segments = 0
         /\ JOBS[id].result_json.v.lineal_feet = 0
         /\ JOBS[id].result_json.v.area_sqft = 0

\* a job on the single-page document has succeeded with the default payload
C15_Witness ==
  \E a \in DOMAIN JOBS :
    /\ task[a].page_count = Ok(1)
    /\ JOBS[a].state = Succeeded
    /\ JOBS[a].result_json.v.pages = 1
    /\ JOBS[a].result_json.v.units_per_pixel = UnitsPerPixelDefault

(***************************************************************************)
(* retry_with_backoff.                                                     *)
(***************************************************************************)
\* C17: the wait before the k-th retry is 50 * 2^(k-1) ms: 50, 100, 200, ...
C17_BackoffSchedule ==
  \A k \in 1..Len(retry.sleeps) : retry.sleeps[k] = 50 * (2 ^ (k - 1))

RetryErrs(n) == \A k \in 1..n : retry.outcomes[k].tag = "Err"

\* the state of a run of retry_with_backoff is within its budget, and a
\* returned run has returned what the claim says
RetryWithinBudget ==
  retry.pc # "off" =>
    LET calls == Len(retry.outcomes)
        slept == Len(retry.sleeps)
    IN  /\ calls <= retry.max_retries + 1
        /\ slept <= retry.max_retries
        /\ retry.max_retries = 0 => calls <= 1 /\ slept = 0
        /\ retry.pc # "done" => RetryErrs(calls)
        /\ retry.pc = "done" =>
             /\ calls >= 1
             /\ retry.result = retry.outcomes[calls]
             /\ RetryErrs(calls - 1)
             /\ slept = calls - 1
             /\ retry.result.tag = "Err" =>
                  /\ calls = retry.max_retries + 1
                  /\ slept = retry.max_retries

\* C18: f is called at most max_retries + 1 times; the first Ok is returned
\* and f is not called again; when every attempt fails the error of the
\* (max_retries + 1)-th attempt is returned after exactly max_retries sleeps;
\* with max_retries = 0 f is called once and there is no sleep; and the
\* function always returns.
C18_BoundedRetry ==
  /\ []RetryWithinBudget
  /\ [][retry.pc = "done" => retry' = retry]_vars
  /\ (retry.pc # "off") ~> (retry.pc = "done")

\* a run with a budget of two or more retries has used all of it, failed on
\* every attempt with differing errors, and returned the last error
C18_Witness ==
  /\ retry.pc = "done"
  /\ retry.max_retries >= 2
  /\ retry.result = Err("ParseError")
  /\ retry.outcomes[1] = Err("IoError")
  /\ Len(retry.outcomes) = retry.max_retries + 1
  /\ Len(retry.sleeps) = retry.max_retries

(***************************************************************************)
(* auto_tune_params.                                                       *)
(***************************************************************************)
\* the factor the specification gives a tile of standard deviation std
SpecFactor(std) == IF std > 50 THEN 850 ELSE 1000

\* C19: for every Otsu level and either factor, low is
\* max(otsu * 0.5 * factor, 1.0) and high is max(otsu * 1.2 * factor, low + 1)
\* for that returned low, so that low >= 1 and high >= low + 1.
C19_ThresholdsOrdered ==
  tune.pc = "done" =>
    LET f == SpecFactor(tune.std)
    IN  /\ tune.low = Max((tune.otsu * 500 * f) \div 1000, 1000)
        /\ tune.high = Max((tune.otsu * 1200 * f) \div 1000, tune.low + 1000)
        /\ tune.low >= 1000
        /\ tune.high >= tune.low + 1000

\* x in thousandths rounded to the nearest integer
RoundMilli(x) == (x + 500) \div 1000

\* C20: the vote threshold is max(round(30 * factor), 15): 30 for a tile of
\* standard deviation at most 50.0, 26 for one above, and never below 15.
C20_VoteRounded ==
  tune.pc = "done" =>
    /\ tune.vote = Max(RoundMilli(30 * SpecFactor(tune.std)), 15)
    /\ tune.vote = (IF tune.std > 50 THEN 26 ELSE 30)
    /\ tune.vote >= 15

====
